---- MODULE Spec2Model ----
(***************************************************************************)
(* A model of the anaconda installer widgets (AnacondaSpokeWindow,         *)
(* AnacondaHubWindow) and of two helper scripts (list-harddrives-stub,     *)
(* anaconda-yum).                                                          *)
(*                                                                         *)
(* The handlers fall into groups that touch disjoint state, and each group *)
(* has its own specification:                                              *)
(*   Spec        size_allocate and draw of one window (a spoke or a hub)   *)
(*   MirrorSpec  a spoke and a hub that receive the same events            *)
(*   DrawSpec    draws and resizes of one window, with its image files     *)
(*   SignalSpec  the spoke's map handler, its button and the F12 key       *)
(*   StubSpec    list-harddrives-stub                                      *)
(*   YumSpec     run_yum_transaction of anaconda-yum with its callbacks    *)
(*   CallbackSpec, CallbackFairSpec  the RPMCallback of one transaction    *)
(***************************************************************************)
EXTENDS Integers, Sequences, FiniteSets, TLC

VARIABLES
    wins,       \* window id -> the window's layout and drawing state
    files,      \* which decorative image files exist on disk
    sig,        \* the spoke's signals: map, button, accelerator, listeners
    stub,       \* list-harddrives-stub: its input, position and output
    yum         \* run_yum_transaction: its position, exception and output

vars == <<wins, files, sig, stub, yum>>

----------------------------------------------------------------------------
(* Bounds of the model.                                                    *)

MaxWidth == 6
MaxHeight == 2
MaxHeld == 4

\* Widths beyond the small ones: the largest X11 window, and the two widths
\* around the first one whose float product rounds up to the next integer.
LargeWidths == {32767, 1456360, 1456361}

Widths == (0 .. MaxWidth) \cup LargeWidths
\* Where a window is placed and how high it is: at the origin, as a
\* toplevel is, and away from it.
Frames == {[x |-> 0, y |-> 0, height |-> 1], [x |-> 3, y |-> 5, height |-> MaxHeight]}

Kinds == {"spoke", "hub"}

----------------------------------------------------------------------------
(* float topbar_width_percentage = .18;  return allocation.width * pct;    *)
(*                                                                         *)
(* The nearest IEEE single to 0.18 is 3019899 / 2^24.  The int is          *)
(* converted to float (exactly, below 2^24), the product is rounded to a   *)
(* 24-bit significand (nearest, ties to even) and the conversion to int    *)
(* truncates.  The product is computed in 12-bit limbs so that no          *)
(* intermediate value leaves 32 bits.                                      *)

PctMantissa == 3019899
PctScale == 2 ^ 24
Limb == 2 ^ 12

RECURSIVE BitLen(_)
BitLen(n) == IF n = 0 THEN 0 ELSE 1 + BitLen(n \div 2)

\* The exact product w * 0.18f as [hi, lo]: hi + lo / 2^24.
ExactProduct(w, mant) ==
    LET wh == w \div Limb
        wl == w % Limb
        mh == mant \div Limb
        ml == mant % Limb
        a == wh * mh
        b == wh * ml + wl * mh
        c == wl * ml
        low == (b % Limb) * Limb + c
    IN  [hi |-> a + (b \div Limb) + (low \div PctScale), lo |-> low % PctScale]

\* (int)(float)(hi + lo / 2^24), for 0 <= hi < 2^24.
RoundTruncate(p) ==
    LET len == BitLen(p.hi)
        unit == 2 ^ len
        q == p.lo \div unit
        r == p.lo % unit
        half == unit \div 2
        up == r > half \/ (r = half /\ q % 2 = 1)
    IN  IF p.hi = 0 THEN 0
        ELSE IF up /\ (q + 1) * unit = PctScale THEN p.hi + 1
        ELSE p.hi

\* The product rounded to the nearest integer instead of truncated.
FloatPercentOfRounded(w) ==
    LET p == ExactProduct(w, PctMantissa)
    IN  IF 2 * p.lo >= PctScale THEN p.hi + 1 ELSE p.hi

FloatPercentOf(w) == RoundTruncate(ExactProduct(w, PctMantissa))

\* lround() of the product instead of the truncating conversion.
get_topbar_width_rounded(window) == FloatPercentOfRounded(window.alloc.width)

get_topbar_width(window) == FloatPercentOf(window.alloc.width)

get_topbar_height(window) == window.alloc.height

get_sidebar_width(window) == FloatPercentOf(window.alloc.width)

get_sidebar_height(window) == window.alloc.height

----------------------------------------------------------------------------
(* Window state.                                                           *)

\* A widget's allocation before its first size_allocate.
NoAllocation == [x |-> -1, y |-> -1, width |-> 1, height |-> 1]

NoChild == [present |-> FALSE, visible |-> FALSE, alloc |-> NoAllocation]

\* No size_allocate has run yet.
NoResize == [set |-> FALSE, width |-> 0, bar |-> 0]

NoDraw == [ops |-> <<>>, rect |-> <<0, 0, 0, 0>>, nullOps |-> {}, crError |-> FALSE]

\* Widget instances are numbered in the order the constructors create them:
\* the base window's areas first, then the subclass's own widget.
BaseWidgets == [nav_area |-> 1, action_area |-> 2, alignment |-> 3]

\* gtk_button_new_with_mnemonic, gtk_scrolled_window_new: a new instance,
\* numbered after the instances that exist.
NewWidget(base) == 1 + Cardinality({base.nav_area, base.action_area, base.alignment})

Allocations ==
    {[x |-> f.x, y |-> f.y, width |-> w, height |-> f.height] :
        f \in Frames, w \in Widths}

\* g_object_new(ANACONDA_TYPE_SPOKE_WINDOW): the base window's areas, then
\* priv->button ("own").
anaconda_spoke_window_new ==
    [kind |-> "spoke", base |-> BaseWidgets, own |-> NewWidget(BaseWidgets),
     alloc |-> NoAllocation, child |-> NoChild, lastOp |-> "new",
     passed |-> FALSE, bar |-> 0, first |-> NoResize, returned |-> FALSE, draw |-> NoDraw, pixbufs |-> 0, surfaces |-> 0,
     aborted |-> FALSE]

\* g_object_new(ANACONDA_TYPE_HUB_WINDOW): the base window's areas, then
\* priv->scrolled_window ("own").
anaconda_hub_window_new ==
    [kind |-> "hub", base |-> BaseWidgets, own |-> NewWidget(BaseWidgets),
     alloc |-> NoAllocation, child |-> NoChild, lastOp |-> "new",
     passed |-> FALSE, bar |-> 0, first |-> NoResize, returned |-> FALSE, draw |-> NoDraw, pixbufs |-> 0, surfaces |-> 0,
     aborted |-> FALSE]

New(kind) ==
    IF kind = "spoke" THEN anaconda_spoke_window_new ELSE anaconda_hub_window_new

----------------------------------------------------------------------------
(* size_allocate                                                           *)
(*                                                                         *)
(* Besides the widget's own fields the window record keeps what the checks *)
(* observe of a handler: "lastOp" and "passed" (the child was handed an    *)
(* allocation), "bar" (the handler's local bar width), "first" (the first  *)
(* resize) and "returned" (a resize came back to the first width from      *)
(* another one).                                                           *)

ChildShown(window) == window.child.present /\ window.child.visible

Observed(window, allocation, bar, passed) ==
    [window EXCEPT
        !.lastOp = "size_allocate",
        !.passed = passed,
        !.bar = bar,
        !.first = IF @.set THEN @
                  ELSE [set |-> TRUE, width |-> allocation.width, bar |-> bar],
        !.returned = @ \/ (window.first.set
                            /\ window.first.width = allocation.width
                            /\ window.alloc.width # allocation.width)]

\* The child is allocated whenever there is one, shown or not.
anaconda_spoke_window_size_allocate_hidden_too(window, allocation) ==
    LET w1 == [window EXCEPT !.alloc = allocation]
        topbar_width == get_topbar_width(w1)
        child_allocation ==
            [x |-> allocation.x + topbar_width,
             y |-> allocation.y,
             width |-> allocation.width - topbar_width,
             height |-> allocation.height]
    IN  IF window.child.present
        THEN [Observed(window, allocation, topbar_width, TRUE) EXCEPT
                !.alloc = allocation, !.child.alloc = child_allocation]
        ELSE [Observed(window, allocation, topbar_width, FALSE) EXCEPT
                !.alloc = allocation]

\* The bar is computed before the new allocation is stored.
anaconda_spoke_window_size_allocate_stale(window, allocation) ==
    LET topbar_width == get_topbar_width(window)
        child_allocation ==
            [x |-> allocation.x + topbar_width,
             y |-> allocation.y,
             width |-> allocation.width - topbar_width,
             height |-> allocation.height]
    IN  IF ChildShown(window)
        THEN [Observed(window, allocation, topbar_width, TRUE) EXCEPT
                !.alloc = allocation, !.child.alloc = child_allocation]
        ELSE [Observed(window, allocation, topbar_width, FALSE) EXCEPT
                !.alloc = allocation]

anaconda_spoke_window_size_allocate(window, allocation) ==
    LET w1 == [window EXCEPT !.alloc = allocation]
        topbar_width == get_topbar_width(w1)
        child_allocation ==
            [x |-> allocation.x + topbar_width,
             y |-> allocation.y,
             width |-> allocation.width - topbar_width,
             height |-> allocation.height]
    IN  IF ChildShown(window)
        THEN [Observed(window, allocation, topbar_width, TRUE) EXCEPT
                !.alloc = allocation, !.child.alloc = child_allocation]
        ELSE [Observed(window, allocation, topbar_width, FALSE) EXCEPT
                !.alloc = allocation]

\* The child is shrunk but not shifted.
anaconda_hub_window_size_allocate_unshifted(window, allocation) ==
    LET w1 == [window EXCEPT !.alloc = allocation]
        sidebar_width == get_sidebar_width(w1)
        child_allocation ==
            [x |-> allocation.x,
             y |-> allocation.y,
             width |-> allocation.width - sidebar_width,
             height |-> allocation.height]
    IN  IF ChildShown(window)
        THEN [Observed(window, allocation, sidebar_width, TRUE) EXCEPT
                !.alloc = allocation, !.child.alloc = child_allocation]
        ELSE [Observed(window, allocation, sidebar_width, FALSE) EXCEPT
                !.alloc = allocation]

anaconda_hub_window_size_allocate(window, allocation) ==
    LET w1 == [window EXCEPT !.alloc = allocation]
        sidebar_width == get_sidebar_width(w1)
        child_allocation ==
            [x |-> allocation.x + sidebar_width,
             y |-> allocation.y,
             width |-> allocation.width - sidebar_width,
             height |-> allocation.height]
    IN  IF ChildShown(window)
        THEN [Observed(window, allocation, sidebar_width, TRUE) EXCEPT
                !.alloc = allocation, !.child.alloc = child_allocation]
        ELSE [Observed(window, allocation, sidebar_width, FALSE) EXCEPT
                !.alloc = allocation]

\* widget_class->size_allocate
size_allocate(window, allocation) ==
    IF window.kind = "spoke"
    THEN anaconda_spoke_window_size_allocate(window, allocation)
    ELSE anaconda_hub_window_size_allocate(window, allocation)

----------------------------------------------------------------------------
(* The hub's named internal children.                                      *)

anaconda_hub_window_get_spoke_area(win) == win.own

\* The base window's GtkBuildable get_internal_child: its own areas by
\* name, and no widget for any other name.
parent_get_internal_child(win, childname) ==
    IF childname = "action_area" THEN win.base.action_area
    ELSE IF childname = "nav_area" THEN win.base.nav_area
    ELSE IF childname = "alignment" THEN win.base.alignment
    ELSE 0

\* if (strcmp(childname, "scrolled_window")) ... : the test inverted.
anaconda_hub_window_buildable_get_internal_child_inverted(win, childname) ==
    IF childname # "scrolled_window"
    THEN anaconda_hub_window_get_spoke_area(win)
    ELSE parent_get_internal_child(win, childname)

anaconda_hub_window_buildable_get_internal_child(win, childname) ==
    IF childname = "scrolled_window"
    THEN anaconda_hub_window_get_spoke_area(win)
    ELSE parent_get_internal_child(win, childname)

----------------------------------------------------------------------------
(* draw                                                                    *)
(*                                                                         *)
(* gdk_pixbuf_new_from_file returns NULL for a file that is absent.  A     *)
(* NULL pixbuf handed to gdk_cairo_surface_create_from_pixbuf or to        *)
(* g_object_unref breaks the callee's precondition: a build with the       *)
(* checks compiled in logs a critical and returns (NULL), which is fatal   *)
(* when criticals are fatal; a build without them dereferences NULL.       *)
(* "outcome" is that choice.  cairo_set_source_surface with a NULL surface *)
(* puts the cairo context into its error state, and every later operation  *)
(* on the context does nothing.                                            *)

NullOutcomes == {"critical", "abort"}

\* The part of on_draw both windows share: everything up to the logo.
\* Returns the window with its "draw" record, pixbufs and surfaces updated.
Composite(window, fs, barWidth, barHeight) ==
    LET background == fs.texture
        nul1 == IF background THEN {}
                ELSE {"gdk_cairo_surface_create_from_pixbuf", "cairo_set_source_surface"}
        crErr == ~background
        ops1 == <<"base_draw", "fill_base">>
        ops2 == IF crErr THEN ops1 ELSE Append(ops1, "fill_texture")
        ops3 == IF fs.logo /\ ~crErr THEN Append(ops2, "fill_logo") ELSE ops2
        loaded == (IF background THEN 1 ELSE 0) + (IF fs.logo THEN 1 ELSE 0)
    IN  [window EXCEPT
            !.draw = [ops |-> ops3, rect |-> <<0, 0, barWidth, barHeight>>,
                      nullOps |-> nul1, crError |-> crErr],
            !.pixbufs = @ + loaded,
            !.surfaces = @ + loaded,
            !.lastOp = "draw"]

\* The draw stops where the first NULL is misused when that is fatal.
Aborted(window, barWidth, barHeight) ==
    [window EXCEPT
        !.draw = [ops |-> <<"base_draw", "fill_base">>,
                  rect |-> <<0, 0, barWidth, barHeight>>,
                  nullOps |-> {"gdk_cairo_surface_create_from_pixbuf"},
                  crError |-> FALSE],
        !.aborted = TRUE,
        !.lastOp = "draw"]

anaconda_spoke_window_on_draw(window, fs, outcome) ==
    LET w == get_topbar_width(window)
        h == get_topbar_height(window)
    IN  IF ~fs.texture /\ outcome = "abort"
        THEN Aborted(window, w, h)
        ELSE Composite(window, fs, w, h)

anaconda_hub_window_on_draw(window, fs, outcome) ==
    LET w == get_sidebar_width(window)
        h == get_sidebar_height(window)
        drawn == Composite(window, fs, w, h)
        unrefNull == IF fs.texture /\ fs.logo THEN {} ELSE {"g_object_unref"}
        released == (IF fs.texture THEN 1 ELSE 0) + (IF fs.logo THEN 1 ELSE 0)
    IN  IF ~fs.texture /\ outcome = "abort"
        THEN Aborted(window, w, h)
        ELSE IF unrefNull # {} /\ outcome = "abort"
        THEN [drawn EXCEPT !.draw.nullOps = @ \cup unrefNull, !.aborted = TRUE]
        ELSE [drawn EXCEPT !.draw.nullOps = @ \cup unrefNull,
                           !.pixbufs = @ - released]

\* widget_class->draw
on_draw(window, fs, outcome) ==
    IF window.kind = "spoke"
    THEN anaconda_spoke_window_on_draw(window, fs, outcome)
    ELSE anaconda_hub_window_on_draw(window, fs, outcome)

\* gtk_container_add / gtk_container_remove / gtk_widget_show / gtk_widget_hide
\* on the window's single child, as size_allocate later reads them.  A child
\* that is added is a new widget, not yet allocated.
set_child(window, present, visible) ==
    [window EXCEPT
        !.child = [present |-> present,
                   visible |-> present /\ visible,
                   alloc |-> IF present /\ window.child.present
                             THEN window.child.alloc ELSE NoAllocation],
        !.lastOp = "set_child"]

----------------------------------------------------------------------------
(* The spoke's signals.                                                    *)
(*                                                                         *)
(* anaconda_spoke_window_init connects one handler to the window's "map"   *)
(* and one to the button's "clicked".  The "map" handler runs each time    *)
(* the window is shown, and each run attaches one more accelerator group   *)
(* that binds F12 to the button's "clicked".                               *)

MaxMaps == 3
MaxListeners == 2

anaconda_spoke_window_init ==
    [mapped |-> FALSE,
     map_handlers |-> 1,        \* g_signal_connect(win, "map", realize)
     clicked_handlers |-> 1,    \* g_signal_connect(button, "clicked", ...)
     accel_groups |-> 0,
     listeners |-> 0,           \* handlers connected to "button-clicked"
     header |-> TRUE,           \* anaconda_spoke_header.png exists
     background |-> FALSE,      \* the nav area has its background pattern
     stderr |-> 0,              \* lines written to standard error
     event |-> "init",
     notified |-> <<>>]         \* per listener, the payloads of the last event

\* The handler also connects the button's "clicked" again.
anaconda_spoke_window_realize_reconnecting(s) ==
    [s EXCEPT
        !.stderr = IF s.header THEN @ ELSE @ + 1,
        !.background = @ \/ s.header,
        !.accel_groups = @ + 1,
        !.clicked_handlers = @ + 1]

\* The handler returns after logging when the image cannot be loaded.
anaconda_spoke_window_realize_returning(s) ==
    IF s.header
    THEN [s EXCEPT !.background = TRUE, !.accel_groups = @ + 1]
    ELSE [s EXCEPT !.stderr = @ + 1]

anaconda_spoke_window_realize(s) ==
    [s EXCEPT
        !.stderr = IF s.header THEN @ ELSE @ + 1,
        !.background = @ \/ s.header,
        !.accel_groups = @ + 1]

\* g_signal_emit(win, window_signals[SIGNAL_BUTTON_CLICKED], 0): every
\* listener is called once, with no argument.  "got" is what the listeners
\* have received so far in this event.
anaconda_spoke_window_button_clicked(s, got) ==
    [i \in 1 .. s.listeners |-> Append(got[i], <<>>)]

RECURSIVE RunHandlers(_, _, _)
RunHandlers(s, n, got) ==
    IF n = 0 THEN got
    ELSE RunHandlers(s, n - 1, anaconda_spoke_window_button_clicked(s, got))

\* The button emits "clicked" "times" times; each emission runs every
\* handler connected to it.
ButtonClicked(s, times) ==
    RunHandlers(s, times * s.clicked_handlers, [i \in 1 .. s.listeners |-> <<>>])

\* A key press is offered to the window's accelerator groups in turn, and
\* the first one that binds the key consumes it.
gtk_accel_groups_activate(s) == IF s.accel_groups > 0 THEN 1 ELSE 0

SigIdle == anaconda_spoke_window_init

----------------------------------------------------------------------------
(* list-harddrives-stub.  Strings are sequences of character codes, which  *)
(* is how Python 2 compares them.                                          *)

MaxDevices == 3

\* "/dev/", "/dev/sr"
DevSlash == <<47, 100, 101, 118, 47>>
DevSr == DevSlash \o <<115, 114>>

\* "/dev/sda", "/dev/sdb", "/dev/sd", "/dev/sr0", "/dev/dm-0", "sdb"
DevicePaths ==
    {DevSlash \o <<115, 100, 97>>,
     DevSlash \o <<115, 100, 98>>,
     DevSlash \o <<115, 100>>,
     DevSr \o <<48>>,
     DevSlash \o <<100, 109, 45, 48>>,
     <<115, 100, 98>>}

\* parted device types: device-mapper, and one of the others.
DeviceTypes == {"DEVICE_DM", "DEVICE_SCSI"}

DeviceSizes == {8, 16}

\* What parted.getAllDevices() can report.
Devices == [path : DevicePaths, type : DeviceTypes, size : DeviceSizes]

DeviceLists == UNION {[1 .. n -> Devices] : n \in 0 .. MaxDevices}

\* str.startswith
startswith(str, prefix) ==
    Len(str) >= Len(prefix) /\ SubSeq(str, 1, Len(prefix)) = prefix

\* Python's < on strings: by character code, a proper prefix first.
RECURSIVE StrLess(_, _)
StrLess(a, b) ==
    IF b = <<>> THEN FALSE
    ELSE IF a = <<>> THEN TRUE
    ELSE IF Head(a) # Head(b) THEN Head(a) < Head(b)
    ELSE StrLess(Tail(a), Tail(b))

\* Python's < on (path, size) tuples.
TupleLess(p, q) == StrLess(p[1], q[1]) \/ (p[1] = q[1] /\ p[2] < q[2])

\* list.sort() of the list of a set.
RECURSIVE Sorted(_)
Sorted(set) ==
    IF set = {} THEN <<>>
    ELSE LET least == CHOOSE x \in set : \A y \in set \ {x} : TupleLess(x, y)
         IN  <<least>> \o Sorted(set \ {least})

\* The filter with the /dev/sr test left out.
StubKeepsNotDM(d) == d.type # "DEVICE_DM"

\* lambda d: d.type != parted.DEVICE_DM and not d.path.startswith("/dev/sr")
StubKeeps(d) == d.type # "DEVICE_DM" /\ ~startswith(d.path, DevSr)

\* The body of the loop: the path without its "/dev/", with the size.
StubLine(dev) ==
    LET path == IF startswith(dev.path, DevSlash)
                THEN SubSeq(dev.path, 6, Len(dev.path))
                ELSE dev.path
    IN  <<path, dev.size>>

StubIdle == [pc |-> "idle", devices |-> <<>>, i |-> 0, lst |-> {}, out |-> <<>>]

----------------------------------------------------------------------------
(* anaconda-yum: run_yum_transaction.                                      *)

MaxErrors == 2

\* The most package files rpm opens in a transaction (MaxRunOpens where the
\* whole of run_yum_transaction is followed), the largest total it
\* announces, and the count at which the download loop's DEBUG lines are no
\* longer told apart.
MaxOpens == 3

MaxRunOpens == 1

MaxTotal == 2

MaxLoopLines == 1

\* What a call into yum or rpm can raise.  RepoError, PackageSackError and
\* YumRPMTransError are YumBaseErrors; KeyboardInterrupt is no Exception.
Raisable ==
    {"RepoError", "PackageSackError", "YumRPMTransError", "YumBaseError",
     "Exception", "KeyboardInterrupt"}

IsYumBaseError(e) ==
    e \in {"RepoError", "PackageSackError", "YumRPMTransError", "YumBaseError"}

IsException(e) == e \in Raisable \ {"KeyboardInterrupt"}

\* The messages of the errors an exception carries in its "errors" list.
ErrorNames == {"conflict", "disk full"}

ErrorLists == UNION {[1 .. n -> ErrorNames] : n \in 0 .. MaxErrors}

\* The exception objects of a type: a YumRPMTransError always has an
\* "errors" attribute, a plain YumBaseError need not have one.
ExceptionObjects(r) ==
    IF r = "YumRPMTransError"
    THEN {[msg |-> r, errors |-> s] : s \in ErrorLists}
    ELSE IF r = "YumBaseError"
    THEN {[msg |-> r]} \cup {[msg |-> r, errors |-> s] : s \in ErrorLists}
    ELSE {[msg |-> r]}

hasattr_errors(e) == "errors" \in DOMAIN e

\* self.completed_actions = None
None == -1

\* self.package_file = None
NoFile == [dir |-> "", name |-> ""]

cachedir == "/var/cache/yum"

\* Where repo.getPackage leaves a package: in yum's cache or on the media.
PackagePaths ==
    {[dir |-> cachedir, name |-> "p.rpm"], [dir |-> "/mnt/install/source", name |-> "p.rpm"]}

base_arch == "x86_64"

\* The transaction members rpm hands to the callbacks as "key"; for a
\* cleanup or remove error the key is a plain name.
Packages ==
    {[po |-> TRUE, name |-> "bash", arch |-> "noarch"],
     [po |-> TRUE, name |-> "glibc", arch |-> "i686"]}

Keys == Packages \cup {[po |-> FALSE, name |-> "kernel", arch |-> ""]}

NoKey == [po |-> FALSE, name |-> "", arch |-> ""]

\* RPMCallback.__init__; "opened" counts the calls of inst_open_file.
NoCallback ==
    [created |-> FALSE, debug |-> FALSE, package_file |-> NoFile,
     total_actions |-> 0, completed_actions |-> None, install_log |-> 0,
     opened |-> 0]

RPMCallback_init(debug) == [NoCallback EXCEPT !.created = TRUE, !.debug = debug]

\* The callback rpm delivered last: its name, its "total" and the name in
\* its key.
NoDelivery == [what |-> "none", total |-> 0, name |-> ""]

\* "opens" is the number of package files the loaded transaction makes rpm
\* open.
YumIdle ==
    [pc |-> "idle", exc |-> "none", cause |-> "none", error |-> "none",
     errors |-> <<>>, out |-> <<>>,
     testing |-> FALSE, debug |-> FALSE, ts_open |-> FALSE, log_open |-> FALSE,
     test_flag |-> FALSE, rpmcb |-> NoCallback, key |-> NoKey, loop_lines |-> 0,
     delivered |-> NoDelivery, announced |-> None, opens |-> 0]

Raise(y, e, where) ==
    [y EXCEPT !.exc = e, !.cause = where, !.error = e, !.pc = "except"]

Emit(y, lines) == [y EXCEPT !.out = @ \o lines]

\* for error in e.errors: print("ERROR:    %s" % error[0])
RECURSIVE ErrorLines(_)
ErrorLines(errors) ==
    IF errors = <<>> THEN <<>>
    ELSE <<"ERROR:    " \o Head(errors)>> \o ErrorLines(Tail(errors))

\* yum.YumBase() ... yb.initActionTs(), setColor, and the first print.
yum_setup(y, r) ==
    IF r = "ok"
    THEN [Emit(y, <<"DEBUG: populate transaction set">>) EXCEPT
            !.ts_open = TRUE, !.pc = "populate"]
    ELSE Raise(y, r, "setup")

\* The RepoError handler without its "return": the call goes on to check.
yum_populate_without_return(y, r) ==
    IF r = "ok" THEN [y EXCEPT !.pc = "check"]
    ELSE IF r = "RepoError"
    THEN [Emit(y, <<"ERROR: error populating transaction", "QUIT:">>) EXCEPT
            !.cause = "populate", !.error = r, !.pc = "check"]
    ELSE Raise(y, r, "populate")

\* try: yb.populateTs(keepold=0) except RepoError: ... return
yum_populate(y, r) ==
    IF r = "ok" THEN [y EXCEPT !.pc = "check"]
    ELSE IF r = "RepoError"
    THEN [Emit(y, <<"ERROR: error populating transaction", "QUIT:">>) EXCEPT
            !.cause = "populate", !.error = r, !.pc = "finally"]
    ELSE Raise(y, r, "populate")

\* print; yb.ts.check()
yum_check(y, r) ==
    LET y1 == Emit(y, <<"DEBUG: check transaction set">>)
    IN  IF r = "ok" THEN [y1 EXCEPT !.pc = "order"] ELSE Raise(y1, r, "check")

\* print; yb.ts.order(); yb.ts.clean()
yum_order(y, r) ==
    LET y1 == Emit(y, <<"DEBUG: order transaction set">>)
    IN  IF r = "ok" THEN [y1 EXCEPT !.pc = "open_log"] ELSE Raise(y1, r, "order")

\* logfile = open(script_log, "w") ... rpmcb = RPMCallback(...) ...
\* yb.ts.setFlags(RPMTRANS_FLAG_TEST)
yum_open_log(y, r) ==
    IF r = "ok"
    THEN [y EXCEPT !.log_open = TRUE, !.rpmcb = RPMCallback_init(y.debug),
                   !.test_flag = y.testing, !.pc = "run"]
    ELSE Raise(y, r, "open_log")

\* print("INFO: running transaction"); yb.runTransaction(cb=rpmcb) is entered
yum_run(y) ==
    [Emit(y, <<"INFO: running transaction">>) EXCEPT !.pc = "transaction"]

\* The handler for YumRPMTransError printing no line per underlying error.
yum_run_result_without_errors(y, r, e) ==
    LET close(z) == [z EXCEPT !.pc = "close"]
        failed(z) == [z EXCEPT !.cause = "run", !.error = r,
                               !.errors = IF hasattr_errors(e) THEN e.errors ELSE <<>>]
    IN  IF r = "ok" THEN close(Emit(y, <<"INFO: transaction complete">>))
        ELSE IF r = "PackageSackError"
        THEN close(failed(Emit(y, <<"ERROR: PackageSackError">>)))
        ELSE IF r = "YumRPMTransError"
        THEN close(failed(Emit(y, <<"ERROR: YumRPMTransError">>)))
        ELSE IF IsYumBaseError(r)
        THEN IF hasattr_errors(e)
             THEN close(failed(Emit(y, <<"ERROR: YumBaseError">> \o ErrorLines(e.errors))))
             ELSE close([failed(Emit(y, <<"ERROR: YumBaseError">>))
                            EXCEPT !.exc = "Exception"])
        ELSE close([y EXCEPT !.exc = r, !.error = r, !.cause = "run"])

\* yb.runTransaction returns or raises: except ... else ...
\* A plain YumBaseError has no "errors": the handler's loop raises
\* AttributeError, an Exception.
yum_run_result(y, r, e) ==
    LET close(z) == [z EXCEPT !.pc = "close"]
        failed(z) == [z EXCEPT !.cause = "run", !.error = r,
                               !.errors = IF hasattr_errors(e) THEN e.errors ELSE <<>>]
    IN  IF r = "ok" THEN close(Emit(y, <<"INFO: transaction complete">>))
        ELSE IF r = "PackageSackError"
        THEN close(failed(Emit(y, <<"ERROR: PackageSackError">>)))
        ELSE IF r = "YumRPMTransError"
        THEN close(failed(Emit(y, <<"ERROR: YumRPMTransError">> \o ErrorLines(e.errors))))
        ELSE IF IsYumBaseError(r)
        THEN IF hasattr_errors(e)
             THEN close(failed(Emit(y, <<"ERROR: YumBaseError">> \o ErrorLines(e.errors))))
             ELSE close([failed(Emit(y, <<"ERROR: YumBaseError">>))
                            EXCEPT !.exc = "Exception"])
        ELSE close([y EXCEPT !.exc = r, !.error = r, !.cause = "run"])

\* finally: yb.ts.close(); logfile.close()
yum_close(y) ==
    [y EXCEPT !.ts_open = FALSE, !.log_open = FALSE,
              !.pc = IF y.exc = "none" THEN "finally" ELSE "except"]

\* except YumBaseError ... except Exception ...
yum_except(y) ==
    IF IsYumBaseError(y.exc)
    THEN [Emit(y, <<"ERROR: transaction error">>) EXCEPT !.exc = "none", !.pc = "finally"]
    ELSE IF IsException(y.exc)
    THEN [Emit(y, <<"ERROR: unexpected error">>) EXCEPT !.exc = "none", !.pc = "finally"]
    ELSE [y EXCEPT !.pc = "finally"]

\* "else:" in place of "finally:": QUIT: only when nothing was raised.
yum_finally_as_else(y) ==
    IF y.cause = "none"
    THEN [Emit(y, <<"QUIT:">>) EXCEPT !.pc = "returned"]
    ELSE [y EXCEPT !.pc = IF y.exc = "none" THEN "returned" ELSE "raised"]

\* finally: print("QUIT:")
yum_finally(y) ==
    [Emit(y, <<"QUIT:">>) EXCEPT !.pc = IF y.exc = "none" THEN "returned" ELSE "raised"]

----------------------------------------------------------------------------
(* anaconda-yum: RPMCallback.  rpm calls the callbacks from inside         *)
(* yb.runTransaction, so they act on the record of the running call and    *)
(* print to the same standard output.                                      *)

\* callback(what, amount, total, key, data) finds the method named after
\* "what" and calls it; y is the record the method leaves.  "announced" is
\* the total rpm passed with the start of the transaction.
callback(y, what, total, key) ==
    [y EXCEPT !.delivered = [what |-> what, total |-> total, name |-> key.name],
              !.announced = IF what = "trans_start" THEN total ELSE @]

\* _get_txmbr(key): (name, txmbr); txmbr is None for a plain name.
get_txmbr_name(key) == key.name

\* An exception raised in a callback leaves runTransaction: no handler at
\* lines 142-151 matches a plain Exception and "else" is skipped.
CallbackRaise(y, lines) ==
    [Emit(y, lines) EXCEPT !.exc = "Exception", !.error = "Exception",
                           !.cause = "callback", !.pc = "close"]

DebugLines(y, lines) == IF y.rpmcb.debug THEN Emit(y, lines) ELSE y

\* The DEBUG lines printed inside the download loop, which has no bound on
\* its iterations: they are counted, and counts from MaxLoopLines on are
\* not told apart.
LoopLine(y) ==
    [y EXCEPT !.loop_lines = IF @ < MaxLoopLines THEN @ + 1 ELSE MaxLoopLines]

DebugLoopLine(y) == IF y.rpmcb.debug THEN LoopLine(y) ELSE y

\* trans_start that resets the counter but keeps the old total.
trans_start_keeping_total(y, amount, total) ==
    LET y1 == IF amount = 6 THEN Emit(y, <<"PROGRESS_PREP:">>) ELSE y
    IN  [y1 EXCEPT !.rpmcb.completed_actions = 0]

trans_start(y, amount, total) ==
    LET y1 == IF amount = 6 THEN Emit(y, <<"PROGRESS_PREP:">>) ELSE y
    IN  [y1 EXCEPT !.rpmcb.total_actions = total, !.rpmcb.completed_actions = 0]

progress_package(txmbr) ==
    IF txmbr.arch \notin {"noarch", base_arch}
    THEN txmbr.name \o "." \o txmbr.arch
    ELSE txmbr.name

\* "PROGRESS_INSTALL: %s" % ("%s (%d/%d)" % (package, completed, total))
ProgressInstall(package, completed, total) ==
    "PROGRESS_INSTALL: " \o package \o " (" \o ToString(completed) \o "/"
        \o ToString(total) \o ")"

\* inst_open_file up to the loop: lines 232-261.
inst_open_file(y, key, repo) ==
    LET y1 == DebugLines(y, <<"DEBUG: txmbr = " \o key.name>>)
        y2 == [y1 EXCEPT !.rpmcb.opened = @ + 1, !.key = key]
        n  == y.rpmcb.completed_actions + 1
        y3 == IF y.rpmcb.completed_actions # None
              THEN [Emit(y2, <<ProgressInstall(progress_package(key), n,
                                               y.rpmcb.total_actions)>>)
                      EXCEPT !.rpmcb.completed_actions = n,
                             !.rpmcb.install_log = @ + 1]
              ELSE y2
    IN  IF repo = "ok"
        THEN [y3 EXCEPT !.rpmcb.package_file = NoFile, !.pc = "while"]
        ELSE CallbackRaise(y3, <<"ERROR: getRepo failed">>)

\* while self.package_file is None: ... ; lines 294-296 when it is not.
inst_open_file_while(y) ==
    IF y.rpmcb.package_file = NoFile
    THEN [y EXCEPT !.pc = "getPackage"]
    ELSE [DebugLines(y, <<"DEBUG: opening package">>) EXCEPT
            !.key = NoKey, !.pc = "transaction"]

\* One pass of the loop body, lines 263-292: r is what repo.getPackage
\* does, path what it returns, local whether txmbr.po.localPkg() exists.
inst_open_file_getPackage(y, r, path, local) ==
    LET y1 == DebugLoopLine(y)
    IN  IF r = "ok"
        THEN [y1 EXCEPT !.rpmcb.package_file = path, !.pc = "while"]
        ELSE IF r = "URLGrabError"
        THEN CallbackRaise(y1, <<"ERROR: URLGrabError">>)
        ELSE IF r \in {"NoMoreMirrorsRepoError", "IOError"}
        THEN IF local
             THEN [LoopLine(y1) EXCEPT !.pc = "while"]
             ELSE CallbackRaise(y1, <<"ERROR: getPackage error">>)
        ELSE [LoopLine(y1) EXCEPT !.pc = "while"]

GetPackageOutcomes ==
    {"ok", "URLGrabError", "NoMoreMirrorsRepoError", "IOError", "RepoError"}

\* inst_close_file: unlinked is what os.unlink does when the path is in
\* the cache directory.
inst_close_file(y, unlinked) ==
    LET package_path == y.rpmcb.package_file
        y1 == [y EXCEPT !.rpmcb.package_file = NoFile]
        y2 == IF package_path.dir = cachedir /\ unlinked = "OSError"
              THEN Emit(y1, <<"WARN: unable to remove file">>)
              ELSE y1
    IN  IF y.rpmcb.completed_actions = y.rpmcb.total_actions
        THEN Emit(y2, <<"PROGRESS_POST:">>)
        ELSE y2

cpio_error(y, key) ==
    CallbackRaise(y, <<"ERROR: cpio error with package " \o get_txmbr_name(key)>>)

unpack_error(y, key) ==
    CallbackRaise(y, <<"ERROR: unpack error with package " \o get_txmbr_name(key)>>)

\* script_error that takes every script error as fatal.
script_error_always_fatal(y, total, key) ==
    CallbackRaise(y, <<"ERROR: script error with package " \o get_txmbr_name(key)>>)

\* Script errors store whether or not they're fatal in "total".
script_error(y, total, key) ==
    IF total # 0
    THEN CallbackRaise(y, <<"ERROR: script error with package " \o get_txmbr_name(key)>>)
    ELSE y

----------------------------------------------------------------------------
(* Events on windows.  "ws" is the set of windows an event is delivered    *)
(* to: one window, or the spoke and the hub together in MirrorSpec.        *)

TypeFiles == [texture : BOOLEAN, logo : BOOLEAN]

others == <<sig, stub, yum>>

OthersIdle == sig = SigIdle /\ stub = StubIdle /\ yum = YumIdle

AllFiles == [texture |-> TRUE, logo |-> TRUE]

Live(ws) == \A w \in ws : w \in DOMAIN wins /\ ~wins[w].aborted

Deliver(ws, f(_)) == wins' = [w \in DOMAIN wins |-> IF w \in ws THEN f(wins[w]) ELSE wins[w]]

SizeAllocateIn(ws, allocs) ==
    /\ Live(ws)
    /\ \E a \in allocs :
            LET f(window) == size_allocate(window, a) IN Deliver(ws, f)
    /\ UNCHANGED files

DrawIn(ws) ==
    /\ Live(ws)
    /\ \A w \in ws : wins[w].surfaces < MaxHeld
    /\ \E outcome \in NullOutcomes :
            LET f(window) == on_draw(window, files, outcome) IN Deliver(ws, f)
    /\ UNCHANGED files

SetChildIn(ws) ==
    /\ Live(ws)
    /\ \E present \in BOOLEAN, visible \in BOOLEAN :
            /\ present \/ ~visible
            /\ LET f(window) == set_child(window, present, visible) IN Deliver(ws, f)
    /\ UNCHANGED files

\* An image file is installed or removed.
SetFile ==
    /\ \E f \in TypeFiles : f # files /\ files' = f
    /\ UNCHANGED <<wins, others>>

----------------------------------------------------------------------------
(* Spec: the layout of one window, a spoke or a hub.                       *)

Init ==
    /\ \E k \in Kinds : wins = [w \in {k} |-> New(k)]
    /\ files = AllFiles
    /\ OthersIdle

SizeAllocate ==
    /\ \E w \in DOMAIN wins : SizeAllocateIn({w}, Allocations)
    /\ UNCHANGED others

SetChild ==
    /\ \E w \in DOMAIN wins : SetChildIn({w})
    /\ UNCHANGED others

Next == SizeAllocate \/ SetChild

Spec == Init /\ [][Next]_vars

----------------------------------------------------------------------------
(* Claims about the layout, checked under Spec.                            *)

BarOf(window) ==
    IF window.kind = "spoke" THEN get_topbar_width(window) ELSE get_sidebar_width(window)

Floor18(w) == (w * 18) \div 100

\* One below the first width whose float product rounds up to the next
\* integer: 1456361 * 0.18f is 262144.98..., and floats that large are 1/32
\* apart.
ExactWidthLimit == 1456361 - 1

\* The bar a resize to the first width computes is the one the first resize
\* computed.
NoDrift(window) ==
    (window.first.set /\ window.alloc.width = window.first.width)
        => window.bar = window.first.bar

\* C1 as stated: for every width W >= 0 the bar width of a spoke and of a
\* hub is floor(W * 0.18), and a resize back to a width gives the bar width
\* of the first resize to it.
C1_BarIsFloorForEveryWidth ==
    \A w \in DOMAIN wins :
        /\ wins[w].alloc.width >= 0 => BarOf(wins[w]) = Floor18(wins[w].alloc.width)
        /\ wins[w].first.set => wins[w].bar = Floor18(wins[w].alloc.width)
        /\ NoDrift(wins[w])

\* C1 amended: the bar width is floor(W * 0.18) for every width W from 0 to
\* 1456360, and for every width a resize back to it gives the bar width of
\* the first resize to it.
C1_BarIsFloorUpToLimit ==
    \A w \in DOMAIN wins :
        /\ wins[w].alloc.width \in 0 .. ExactWidthLimit
                => BarOf(wins[w]) = Floor18(wins[w].alloc.width)
        /\ (wins[w].first.set /\ wins[w].alloc.width <= ExactWidthLimit)
                => wins[w].bar = Floor18(wins[w].alloc.width)
        /\ NoDrift(wins[w])

\* A window that was resized away from its first width and back to it, with
\* a bar that is not empty.
C1_Witness ==
    \E w \in DOMAIN wins :
        /\ wins[w].returned
        /\ wins[w].lastOp = "size_allocate"
        /\ wins[w].alloc.width = wins[w].first.width
        /\ wins[w].alloc.width = 32767
        /\ wins[w].bar = 5898

\* C2 as stated: after a resize to (x, y, W, H) with the child shown, the
\* child has width W - bar, x-offset bar, height H and y-offset y.
C2_ChildAtBarWidth ==
    \A w \in DOMAIN wins :
        (wins[w].lastOp = "size_allocate" /\ ChildShown(wins[w])) =>
            wins[w].child.alloc =
                [x |-> BarOf(wins[w]),
                 y |-> wins[w].alloc.y,
                 width |-> wins[w].alloc.width - BarOf(wins[w]),
                 height |-> wins[w].alloc.height]

\* C2 amended: after a resize to (x, y, W, H) with the child shown, the
\* child has width W - bar, x-offset x + bar, height H and y-offset y.
C2_ChildShiftedByBarWidth ==
    \A w \in DOMAIN wins :
        (wins[w].lastOp = "size_allocate" /\ ChildShown(wins[w])) =>
            /\ wins[w].passed
            /\ wins[w].child.alloc =
                    [x |-> wins[w].alloc.x + BarOf(wins[w]),
                     y |-> wins[w].alloc.y,
                     width |-> wins[w].alloc.width - BarOf(wins[w]),
                     height |-> wins[w].alloc.height]

\* A hub away from the origin, resized with its child shown and a bar that
\* is not empty.
C2_Witness ==
    \E w \in DOMAIN wins :
        /\ wins[w].kind = "hub"
        /\ wins[w].lastOp = "size_allocate"
        /\ ChildShown(wins[w])
        /\ wins[w].alloc.x = 3
        /\ wins[w].alloc.width = MaxWidth
        /\ wins[w].child.alloc.x = 4
        /\ wins[w].child.alloc.width = MaxWidth - 1

\* C4: in every state of a hub the lookup of "scrolled_window" gives the
\* widget anaconda_hub_window_get_spoke_area gives, and that widget is not
\* the one the lookup of "action_area" gives.
C4_ScrolledWindowLookup ==
    \A w \in DOMAIN wins :
        wins[w].kind = "hub" =>
            /\ anaconda_hub_window_buildable_get_internal_child(wins[w], "scrolled_window")
                    = anaconda_hub_window_get_spoke_area(wins[w])
            /\ anaconda_hub_window_get_spoke_area(wins[w])
                    # anaconda_hub_window_buildable_get_internal_child(wins[w], "action_area")
            /\ anaconda_hub_window_buildable_get_internal_child(wins[w], "action_area")
                    = wins[w].base.action_area

\* A hub that has been given a child and resized.
C4_Witness ==
    \E w \in DOMAIN wins :
        /\ wins[w].kind = "hub"
        /\ wins[w].lastOp = "size_allocate"
        /\ wins[w].passed
        /\ anaconda_hub_window_buildable_get_internal_child(wins[w], "scrolled_window")
                = wins[w].own

\* C9: a resize of a window whose child is absent or not visible leaves the
\* child as it was, hands it no allocation and changes only the window's
\* own allocation.
C9_HiddenChildUntouched ==
    [][\A w \in DOMAIN wins :
        (wins'[w].lastOp = "size_allocate" /\ ~ChildShown(wins[w])) =>
            /\ wins'[w].child = wins[w].child
            /\ ~wins'[w].passed
            /\ wins'[w].alloc \in Allocations
            /\ wins'[w].draw = wins[w].draw
            /\ wins'[w].pixbufs = wins[w].pixbufs
            /\ wins'[w].surfaces = wins[w].surfaces]_vars

\* A window resized while its child was hidden: the child keeps the
\* allocation of an earlier resize, which is not the one it would be given
\* now.
C9_Witness ==
    \E w \in DOMAIN wins :
        /\ wins[w].lastOp = "size_allocate"
        /\ wins[w].child.present
        /\ ~wins[w].child.visible
        /\ ~wins[w].passed
        /\ wins[w].child.alloc # NoAllocation
        /\ wins[w].child.alloc.width # wins[w].alloc.width - BarOf(wins[w])

----------------------------------------------------------------------------
(* DrawSpec: the drawing of one window.  on_draw reads the allocation and  *)
(* the image files and never the child, so the child is fixed at the start.*)

DrawAllocations ==
    {a \in Allocations : a.x = 0 /\ a.width \in {MaxWidth - 1, MaxWidth, 32767}}

DrawInit ==
    /\ \E k \in Kinds, shown \in BOOLEAN :
            wins = [w \in {k} |-> set_child(New(k), shown, shown)]
    /\ files = AllFiles
    /\ OthersIdle

DrawResize ==
    /\ \E w \in DOMAIN wins : SizeAllocateIn({w}, DrawAllocations)
    /\ UNCHANGED others

Draw ==
    /\ \E w \in DOMAIN wins : DrawIn({w})
    /\ UNCHANGED others

DrawNext == DrawResize \/ Draw \/ SetFile

DrawSpec == DrawInit /\ [][DrawNext]_vars

----------------------------------------------------------------------------
(* Claims about drawing, checked under DrawSpec.                           *)

\* C5: whichever image files are absent, a draw completes, performs no
\* operation on an image that failed to load, still fills the bar with its
\* base colour, and leaves the window drawable.
C5_MissingImagesSkipped ==
    \A w \in DOMAIN wins :
        /\ ~wins[w].aborted
        /\ wins[w].draw.nullOps = {}
        /\ wins[w].lastOp = "draw" =>
                /\ wins[w].draw.ops[1] = "base_draw"
                /\ wins[w].draw.ops[2] = "fill_base"

\* C6: after any sequence of draws the window holds no image and no
\* surface.
C6_NothingHeldAfterDraw ==
    \A w \in DOMAIN wins : wins[w].pixbufs = 0 /\ wins[w].surfaces = 0

----------------------------------------------------------------------------
(* MirrorSpec: a spoke and a hub that receive the same events.             *)

MirrorAllocations == {a \in Allocations : a.width \in {MaxWidth - 1, MaxWidth}}

MirrorInit ==
    /\ wins = [w \in Kinds |-> New(w)]
    /\ files = AllFiles
    /\ OthersIdle

MirrorResize == SizeAllocateIn(Kinds, MirrorAllocations) /\ UNCHANGED others

MirrorDraw == DrawIn(Kinds) /\ UNCHANGED others

MirrorSetChild == SetChildIn(Kinds) /\ UNCHANGED others

MirrorNext == MirrorResize \/ MirrorDraw \/ MirrorSetChild \/ SetFile

MirrorSpec == MirrorInit /\ [][MirrorNext]_vars

\* What the two windows are compared on: everything but which window it is.
MirrorView(window) ==
    [alloc |-> window.alloc, child |-> window.child, bar |-> window.bar,
     passed |-> window.passed, ops |-> window.draw.ops, rect |-> window.draw.rect,
     pixbufs |-> window.pixbufs, surfaces |-> window.surfaces]

\* C10: after the same resize, draw, child and file events a hub and a
\* spoke have computed the same bar, performed the same compositing steps,
\* given the child the same allocation and hold the same resources.
C10_HubMirrorsSpoke == MirrorView(wins["hub"]) = MirrorView(wins["spoke"])

----------------------------------------------------------------------------
(* SignalSpec: a spoke is shown and hidden, its button is clicked, F12 is  *)
(* pressed and listeners connect to "button-clicked".                      *)

WinsIdle == wins = [w \in {"spoke"} |-> New("spoke")] /\ files = AllFiles

SignalInit ==
    /\ WinsIdle
    /\ sig = anaconda_spoke_window_init
    /\ stub = StubIdle
    /\ yum = YumIdle

notSig == <<wins, files, stub, yum>>

RECURSIVE RunMapHandlers(_, _)
RunMapHandlers(s, n) ==
    IF n = 0 THEN s ELSE RunMapHandlers(anaconda_spoke_window_realize(s), n - 1)

\* gtk_widget_show: the window is mapped and "map" is emitted.
Map ==
    /\ ~sig.mapped
    /\ sig.accel_groups < MaxMaps
    /\ sig' = [RunMapHandlers(sig, sig.map_handlers) EXCEPT
                    !.mapped = TRUE, !.event = "map", !.notified = <<>>]
    /\ UNCHANGED notSig

\* gtk_widget_hide
Unmap ==
    /\ sig.mapped
    /\ sig' = [sig EXCEPT !.mapped = FALSE, !.event = "unmap", !.notified = <<>>]
    /\ UNCHANGED notSig

\* The pointer is pressed and released on the button.
PointerClick ==
    /\ sig.mapped
    /\ sig' = [sig EXCEPT !.event = "pointer", !.notified = ButtonClicked(sig, 1)]
    /\ UNCHANGED notSig

KeyPressF12 ==
    /\ sig.mapped
    /\ sig' = [sig EXCEPT !.event = "f12",
                           !.notified = ButtonClicked(sig, gtk_accel_groups_activate(sig))]
    /\ UNCHANGED notSig

\* g_signal_connect(win, "button-clicked", ...)
ConnectListener ==
    /\ sig.listeners < MaxListeners
    /\ sig' = [sig EXCEPT !.listeners = @ + 1, !.event = "connect", !.notified = <<>>]
    /\ UNCHANGED notSig

\* The header image is installed or removed.
SetHeaderFile ==
    /\ sig' = [sig EXCEPT !.header = ~@]
    /\ UNCHANGED notSig

SignalNext ==
    Map \/ Unmap \/ PointerClick \/ KeyPressF12 \/ ConnectListener \/ SetHeaderFile

SignalSpec == SignalInit /\ [][SignalNext]_vars

\* C3: on a displayed spoke each pointer activation of the button and each
\* F12 key press gives every registered listener exactly one notification,
\* with no argument, however often the window was shown before.
C3_OneNotificationPerActivation ==
    sig.event \in {"pointer", "f12"} =>
        /\ Len(sig.notified) = sig.listeners
        /\ \A i \in 1 .. sig.listeners : sig.notified[i] = << <<>> >>

\* F12 pressed on a spoke that has been shown, hidden and shown again, with
\* two listeners.
C3_Witness ==
    /\ sig.event = "f12"
    /\ sig.mapped
    /\ sig.accel_groups >= 2
    /\ sig.listeners = 2
    /\ sig.notified = << << <<>> >>, << <<>> >> >>

----------------------------------------------------------------------------
(* StubSpec: list-harddrives-stub run on a list of devices.                *)

StubInit ==
    /\ WinsIdle
    /\ sig = SigIdle
    /\ yum = YumIdle
    /\ \E ds \in DeviceLists :
            stub = [pc |-> "scan", devices |-> ds, i |-> 1, lst |-> {}, out |-> <<>>]

notStub == <<wins, files, sig, yum>>

\* One turn of the for loop over the filtered devices.
StubScan ==
    /\ stub.pc = "scan"
    /\ stub.i <= Len(stub.devices)
    /\ LET dev == stub.devices[stub.i]
       IN  stub' = [stub EXCEPT
                        !.i = @ + 1,
                        !.lst = IF StubKeeps(dev) THEN @ \cup {StubLine(dev)} ELSE @]
    /\ UNCHANGED notStub

\* lst = list(lst); lst.sort(); and the printing loop.
StubPrint ==
    /\ stub.pc = "scan"
    /\ stub.i > Len(stub.devices)
    /\ stub' = [stub EXCEPT !.pc = "done", !.out = Sorted(stub.lst)]
    /\ UNCHANGED notStub

StubNext == StubScan \/ StubPrint

StubSpec == StubInit /\ [][StubNext]_vars

HasPrefix(str, prefix) ==
    Len(str) >= Len(prefix) /\ \A i \in 1 .. Len(prefix) : str[i] = prefix[i]

StubRemaining ==
    {stub.devices[i] : i \in
        {j \in 1 .. Len(stub.devices) :
            /\ stub.devices[j].type # "DEVICE_DM"
            /\ ~HasPrefix(stub.devices[j].path, DevSr)}}

StubStripped(path) ==
    IF HasPrefix(path, DevSlash)
    THEN [i \in 1 .. Len(path) - 5 |-> path[i + 5]]
    ELSE path

\* C8: the output has a line for every device that is neither of
\* device-mapper type nor at /dev/sr*, and for no other; it has each line
\* once, with the path's leading /dev/ removed; and it is in ascending order
\* of the stripped paths.
C8_StubOutput ==
    stub.pc = "done" =>
        LET expected == {<<StubStripped(d.path), d.size>> : d \in StubRemaining}
        IN  /\ {stub.out[i] : i \in 1 .. Len(stub.out)} = expected
            /\ Len(stub.out) = Cardinality(expected)
            /\ \A i, j \in 1 .. Len(stub.out) :
                    i < j => ~StrLess(stub.out[j][1], stub.out[i][1])

\* A run whose input had a duplicate, a device-mapper device and a /dev/sr
\* device, and that printed the one remaining disk.
C8_Witness ==
    /\ stub.pc = "done"
    /\ Len(stub.devices) = 3
    /\ \E i, j \in 1 .. 3 :
            /\ i # j
            /\ stub.devices[i] = stub.devices[j]
            /\ stub.devices[i].type # "DEVICE_DM"
            /\ stub.devices[i].path = DevSlash \o <<115, 100, 97>>
    /\ \E i \in 1 .. 3 : stub.devices[i].path = DevSr \o <<48>>
    /\ Len(stub.out) = 1
    /\ stub.out[1][1] = <<115, 100, 97>>

----------------------------------------------------------------------------
(* YumSpec: one call of run_yum_transaction.                               *)

YumInit ==
    /\ WinsIdle
    /\ sig = SigIdle
    /\ stub = StubIdle
    /\ \E testing \in BOOLEAN, debug \in BOOLEAN, opens \in 0 .. MaxRunOpens :
            yum = [YumIdle EXCEPT !.pc = "setup", !.testing = testing,
                                  !.debug = debug, !.opens = opens]

notYum == <<wins, files, sig, stub>>

Outcomes == {"ok"} \cup Raisable

YumStep(pc, f(_, _)) ==
    /\ yum.pc = pc
    /\ \E r \in Outcomes : yum' = f(yum, r)
    /\ UNCHANGED notYum

YumSetup == YumStep("setup", yum_setup)

YumPopulate == YumStep("populate", yum_populate)

YumCheck == YumStep("check", yum_check)

YumOrder == YumStep("order", yum_order)

YumOpenLog == YumStep("open_log", yum_open_log)

YumRun == yum.pc = "run" /\ yum' = yum_run(yum) /\ UNCHANGED notYum

\* rpm delivers callbacks while runTransaction runs.  It announces the
\* transaction once, between package files, and opens one file at a time.
InTransaction == yum.pc = "transaction" /\ yum.rpmcb.created

TransStart ==
    /\ InTransaction
    /\ yum.rpmcb.completed_actions = None
    /\ yum.rpmcb.package_file = NoFile
    /\ \E amount \in {0, 6}, total \in 0 .. MaxTotal :
        yum' = callback(trans_start(yum, amount, total), "trans_start", total, NoKey)
    /\ UNCHANGED notYum

InstOpenFile ==
    /\ InTransaction
    /\ yum.rpmcb.package_file = NoFile
    /\ yum.rpmcb.opened < yum.opens
    /\ \E key \in Packages, repo \in {"ok", "Exception"} :
            yum' = callback(inst_open_file(yum, key, repo), "inst_open_file", 0, key)
    /\ UNCHANGED notYum

InstOpenFileWhile ==
    /\ yum.pc = "while"
    /\ yum' = inst_open_file_while(yum)
    /\ UNCHANGED notYum

InstOpenFileGetPackage ==
    /\ yum.pc = "getPackage"
    /\ \E r \in GetPackageOutcomes, path \in PackagePaths, local \in BOOLEAN :
            yum' = inst_open_file_getPackage(yum, r, path, local)
    /\ UNCHANGED notYum

InstCloseFile ==
    /\ InTransaction
    /\ yum.rpmcb.package_file # NoFile
    /\ \E unlinked \in {"ok", "OSError"} : yum' = callback(inst_close_file(yum, unlinked), "inst_close_file", 0, NoKey)
    /\ UNCHANGED notYum

CpioError ==
    /\ InTransaction
    /\ \E key \in Keys : yum' = callback(cpio_error(yum, key), "cpio_error", 0, key)
    /\ UNCHANGED notYum

UnpackError ==
    /\ InTransaction
    /\ \E key \in Keys : yum' = callback(unpack_error(yum, key), "unpack_error", 0, key)
    /\ UNCHANGED notYum

ScriptError ==
    /\ InTransaction
    /\ \E key \in Keys, total \in {0, 1} : yum' = callback(script_error(yum, total, key), "script_error", total, key)
    /\ UNCHANGED notYum

YumRunResult ==
    /\ yum.pc = "transaction"
    /\ \E r \in Outcomes : \E e \in ExceptionObjects(r) :
            yum' = yum_run_result(yum, r, e)
    /\ UNCHANGED notYum

YumClose == yum.pc = "close" /\ yum' = yum_close(yum) /\ UNCHANGED notYum

YumExcept == yum.pc = "except" /\ yum' = yum_except(yum) /\ UNCHANGED notYum

YumFinally == yum.pc = "finally" /\ yum' = yum_finally(yum) /\ UNCHANGED notYum

YumNext ==
    \/ YumSetup \/ YumPopulate \/ YumCheck \/ YumOrder \/ YumOpenLog
    \/ YumRun \/ TransStart \/ InstOpenFile \/ InstOpenFileWhile
    \/ InstOpenFileGetPackage \/ InstCloseFile \/ CpioError \/ UnpackError
    \/ ScriptError \/ YumRunResult \/ YumClose \/ YumExcept \/ YumFinally

YumSpec == YumInit /\ [][YumNext]_vars

Emitted(line) == \E i \in 1 .. Len(yum.out) : yum.out[i] = line

\* C7: every call of run_yum_transaction has emitted QUIT: when it ends,
\* whichever step failed, with whatever error, and on success.
C7_QuitAlwaysEmitted ==
    yum.pc \in {"returned", "raised"} => Emitted("QUIT:")

\* A call that ended after an exception from an RPM callback: the error was
\* reported by the top-level handler and QUIT: is the last line.
C7_Witness ==
    /\ yum.pc = "returned"
    /\ yum.cause = "callback"
    /\ Emitted("ERROR: unexpected error")
    /\ yum.out[Len(yum.out)] = "QUIT:"

\* The lines a progress line of the given kind can be.
ProgressInstallLines ==
    {ProgressInstall(progress_package(p), k, t) :
        p \in Packages, k \in 1 .. MaxOpens, t \in 0 .. MaxTotal}

IsProgress(line) ==
    line \in {"PROGRESS_PREP:", "PROGRESS_POST:"} \cup ProgressInstallLines

\* C11: once populating the transaction set has raised a RepoError, the
\* ERROR: line reporting it is on the output and the call is on its way out:
\* the set is not checked, ordered or run, the script log is not opened, no
\* callback object exists and neither "INFO: running transaction" nor a
\* PROGRESS_ line is ever emitted.
C11_RepoErrorStops ==
    (yum.cause = "populate" /\ yum.error = "RepoError") =>
        /\ Emitted("ERROR: error populating transaction")
        /\ yum.pc \in {"finally", "returned"}
        /\ ~Emitted("DEBUG: check transaction set")
        /\ ~Emitted("DEBUG: order transaction set")
        /\ ~Emitted("INFO: running transaction")
        /\ ~yum.log_open
        /\ ~yum.rpmcb.created
        /\ \A i \in 1 .. Len(yum.out) : ~IsProgress(yum.out[i])

\* A call that has returned after populateTs raised a RepoError.
C11_Witness ==
    /\ yum.pc = "returned"
    /\ yum.cause = "populate"
    /\ yum.error = "RepoError"
    /\ yum.out[2] = "ERROR: error populating transaction"

\* The position of the first occurrence of a line on the output, 0 if none.
IndexOf(line) ==
    IF Emitted(line)
    THEN CHOOSE i \in 1 .. Len(yum.out) :
            /\ yum.out[i] = line
            /\ \A j \in 1 .. i - 1 : yum.out[j] # line
    ELSE 0

\* C12: once runTransaction has raised a YumRPMTransError carrying n errors,
\* the output ends with the ERROR: line for the transaction error followed
\* by one ERROR: line per underlying error, in the order of the list (and
\* then QUIT: when the call has returned); "INFO: transaction complete" is
\* not emitted, and the call ends with the transaction set and the script
\* log closed.
C12_TransErrorReported ==
    (yum.cause = "run" /\ yum.error = "YumRPMTransError") =>
        LET i == IndexOf("ERROR: YumRPMTransError")
            n == Len(yum.errors)
        IN  /\ i > 0
            /\ \A j \in 1 .. Len(yum.out) : (yum.out[j] = "ERROR: YumRPMTransError") => j = i
            /\ Len(yum.out) >= i + n
            /\ \A k \in 1 .. n : yum.out[i + k] = "ERROR:    " \o yum.errors[k]
            /\ ~Emitted("INFO: transaction complete")
            /\ yum.pc \in {"close", "finally", "returned"}
            /\ yum.pc \in {"close", "finally"} => Len(yum.out) = i + n
            /\ yum.pc \in {"finally", "returned"} => ~yum.ts_open /\ ~yum.log_open
            /\ yum.pc = "returned" =>
                    Len(yum.out) = i + n + 1 /\ yum.out[i + n + 1] = "QUIT:"

\* A call that has returned after a YumRPMTransError carrying two different
\* errors.
C12_Witness ==
    /\ yum.pc = "returned"
    /\ yum.cause = "run"
    /\ yum.error = "YumRPMTransError"
    /\ yum.errors = <<"disk full", "conflict">>
    /\ Emitted("ERROR:    disk full")

LastLine == yum.out[Len(yum.out)]

\* What the claim says of an error callback: its ERROR: line names the
\* package, the exception it raised ends the transaction without
\* "INFO: transaction complete", and the call ends with the top-level
\* handler's ERROR: line followed by QUIT:.
ErrorCallbackAborts(kind) ==
    /\ Emitted("ERROR: " \o kind \o " error with package " \o yum.delivered.name)
    /\ yum.cause = "callback"
    /\ yum.pc \in {"close", "except", "finally", "returned"}
    /\ yum.pc \in {"close", "except"} => yum.exc = "Exception"
    /\ ~Emitted("INFO: transaction complete")
    /\ yum.pc = "returned" =>
            /\ LastLine = "QUIT:"
            /\ yum.out[Len(yum.out) - 1] = "ERROR: unexpected error"
            /\ yum.out[Len(yum.out) - 2] =
                    "ERROR: " \o kind \o " error with package " \o yum.delivered.name

\* C13 as stated: every unpack error, cpio error and script error callback
\* emits its ERROR: line and aborts the run.
C13_EveryErrorCallbackAborts ==
    /\ yum.delivered.what = "unpack_error" => ErrorCallbackAborts("unpack")
    /\ yum.delivered.what = "cpio_error" => ErrorCallbackAborts("cpio")
    /\ yum.delivered.what = "script_error" => ErrorCallbackAborts("script")

\* C13: every unpack error and cpio error callback, and every script error
\* callback whose "total" (the fatal flag) is set, emits its ERROR: line and
\* aborts the run; a script error callback whose "total" is 0 emits nothing
\* and raises nothing, and the transaction goes on.
C13_FatalErrorCallbackAborts ==
    /\ yum.delivered.what = "unpack_error" => ErrorCallbackAborts("unpack")
    /\ yum.delivered.what = "cpio_error" => ErrorCallbackAborts("cpio")
    /\ (yum.delivered.what = "script_error" /\ yum.delivered.total # 0) =>
            ErrorCallbackAborts("script")
    /\ (yum.delivered.what = "script_error" /\ yum.delivered.total = 0) =>
            /\ yum.cause # "callback"
            /\ \A k \in Keys : ~Emitted("ERROR: script error with package " \o k.name)
            /\ yum.exc = "none" \/ yum.cause = "run"

\* A call that returned after a fatal script error in a started transaction.
C13_Witness ==
    /\ yum.pc = "returned"
    /\ yum.delivered = [what |-> "script_error", total |-> 1, name |-> "glibc"]
    /\ Emitted("PROGRESS_PREP:")
    /\ LastLine = "QUIT:"

\* C16 as stated: a call that has ended has emitted exactly one QUIT: line,
\* and it is the last line.
C16_ExactlyOneQuitLast ==
    yum.pc \in {"returned", "raised"} =>
        /\ Len(yum.out) > 0
        /\ LastLine = "QUIT:"
        /\ \A i \in 1 .. Len(yum.out) - 1 : yum.out[i] # "QUIT:"

----------------------------------------------------------------------------
(* CallbackSpec: the callbacks of one transaction, from the call of        *)
(* yb.runTransaction until it is left.  CallbackFairSpec adds that the     *)
(* script keeps running while it can take a step.                          *)

\* The call when every step up to line 139 has succeeded.
Running(debug, opens) ==
    LET start == [YumIdle EXCEPT !.pc = "setup", !.debug = debug, !.opens = opens]
    IN  yum_run(yum_open_log(yum_order(yum_check(yum_populate(
            yum_setup(start, "ok"), "ok"), "ok"), "ok"), "ok"))

CallbackInit ==
    /\ WinsIdle
    /\ sig = SigIdle
    /\ stub = StubIdle
    /\ \E debug \in BOOLEAN : yum = Running(debug, MaxOpens)

CallbackNext ==
    \/ TransStart \/ InstOpenFile \/ InstOpenFileWhile \/ InstOpenFileGetPackage
    \/ InstCloseFile \/ CpioError \/ UnpackError \/ ScriptError

CallbackSpec == CallbackInit /\ [][CallbackNext]_vars

CallbackFairSpec == CallbackSpec /\ WF_vars(CallbackNext)

\* The positions of the PROGRESS_INSTALL lines on the output.
InstallLines == {i \in 1 .. Len(yum.out) : yum.out[i] \in ProgressInstallLines}

C18_OpenFileTerminates ==
    (yum.pc = "while") ~> (yum.pc \in {"transaction", "close"})

C15_HeaderFailureNonFatal ==
    [][/\ (Map /\ ~sig.header) =>
            /\ sig'.stderr = sig.stderr + 1
            /\ sig'.background = sig.background
            /\ sig'.accel_groups = sig.accel_groups + 1
            /\ sig'.mapped
       /\ (KeyPressF12 /\ ~sig.background) =>
            /\ sig.accel_groups > 0
            /\ sig'.notified = [i \in 1 .. sig.listeners |-> << <<>> >>]]_vars

\* F12 pressed on a shown spoke whose header image was missing each time it
\* was shown: the failure was logged, there is no background, and the two
\* listeners were notified.
C15_Witness ==
    /\ sig.event = "f12"
    /\ sig.mapped
    /\ ~sig.background
    /\ sig.stderr = sig.accel_groups
    /\ sig.stderr >= 1
    /\ sig.notified = << << <<>> >>, << <<>> >> >>

====
